---- MODULE Spec2Model ----
(***************************************************************************)
(* Multi-perspective statement evaluation (agents/evaluation.py).          *)
(*                                                                         *)
(* str.lower() and the substring test `needle in text` are computed        *)
(* character by character on the spelling of each string.  Python dicts    *)
(* are functions whose DOMAIN is the key set.                              *)
(* Scores are integers in hundredths (0.75 is 75): every float the code    *)
(* returns has been through round(x, 2).                                   *)
(***************************************************************************)
EXTENDS Integers, Sequences, FiniteSets, TLC

(***************************************************************************)
(* Bounds of the model.                                                    *)
(***************************************************************************)
\* longest explicit agents_to_use list passed by a caller
MaxRequested == 2

(***************************************************************************)
(* Text primitives.  A Python str is a TLA+ string; Spelling gives its     *)
(* characters, on which lower() and `in` are computed.                     *)
(***************************************************************************)
UpperChars ==
    <<"A","B","C","D","E","F","G","H","I","J","K","L","M",
      "N","O","P","Q","R","S","T","U","V","W","X","Y","Z">>
LowerChars ==
    <<"a","b","c","d","e","f","g","h","i","j","k","l","m",
      "n","o","p","q","r","s","t","u","v","w","x","y","z">>

\* str.lower() on one character
LowerChar(c) ==
    IF \E k \in 1..26 : UpperChars[k] = c
    THEN LowerChars[CHOOSE k \in 1..26 : UpperChars[k] = c]
    ELSE c

\* str.lower() on a character sequence
Lower(chars) == [k \in 1..Len(chars) |-> LowerChar(chars[k])]

\* `needle in text` on character sequences
Contains(needle, chars) ==
    \E off \in 0..(Len(chars) - Len(needle)) :
        \A k \in 1..Len(needle) : chars[off + k] = needle[k]

\* the substrings the code searches for
Keywords ==
    {"true", "accurate", "false", "incorrect",
     "manipulat", "statistical", "doesn't make sense", "verify",
     "context", "missing", "source", "primary",
     "mostly true", "largely accurate", "selective", "cherry-pick"}

\* the analysis text of the orchestrator's error record
ErrorAnalysisText == "Error during analysis"

\* texts the language model answers with: evaluator analyses
TextAccurate == "ACCURATE; verify it"
TextFalse == "False: manipulated, context missing"
TextStat == "Statistical primary source"
TextNoSense == "Doesn't make sense"
\* texts the language model answers with: synthesis narratives
SumTruth == "Largely accurate, selective"
SumLie == "Incorrect"
SumNone == "Unclear"
SumMostly == "Mostly TRUE, yet incorrect"
SumCherry == "Cherry-picked, FALSE premise"
SumSelective == "Selective and incorrect"
SumFalsehood == "A falsehood"
SumNearMiss == "Accurate, true"

AnalysisTexts == {TextAccurate, TextFalse, TextStat, TextNoSense}
SummaryTexts ==
    {SumTruth, SumLie, SumNone, SumMostly, SumCherry, SumSelective, SumFalsehood,
     SumNearMiss}
KnownTexts == AnalysisTexts \cup SummaryTexts \cup {ErrorAnalysisText, ""}
\* messages of the exceptions the gateway raises
ErrorMessages == {"timeout", "quota exceeded"}

\* the characters of every string whose content the code looks into
SpellingTable ==
    <<
      <<"true",
        <<"t","r","u","e">>>>,
      <<"accurate",
        <<"a","c","c","u","r","a","t","e">>>>,
      <<"false",
        <<"f","a","l","s","e">>>>,
      <<"incorrect",
        <<"i","n","c","o","r","r","e","c","t">>>>,
      <<"manipulat",
        <<"m","a","n","i","p","u","l","a","t">>>>,
      <<"statistical",
        <<"s","t","a","t","i","s","t","i","c","a","l">>>>,
      <<"doesn't make sense",
        <<"d","o","e","s","n","'","t"," ","m","a","k","e"," ","s","e","n",
          "s","e">>>>,
      <<"verify",
        <<"v","e","r","i","f","y">>>>,
      <<"context",
        <<"c","o","n","t","e","x","t">>>>,
      <<"missing",
        <<"m","i","s","s","i","n","g">>>>,
      <<"source",
        <<"s","o","u","r","c","e">>>>,
      <<"primary",
        <<"p","r","i","m","a","r","y">>>>,
      <<"mostly true",
        <<"m","o","s","t","l","y"," ","t","r","u","e">>>>,
      <<"largely accurate",
        <<"l","a","r","g","e","l","y"," ","a","c","c","u","r","a","t","e">>>>,
      <<"selective",
        <<"s","e","l","e","c","t","i","v","e">>>>,
      <<"cherry-pick",
        <<"c","h","e","r","r","y","-","p","i","c","k">>>>,
      <<ErrorAnalysisText,
        <<"E","r","r","o","r"," ","d","u","r","i","n","g"," ","a","n","a",
          "l","y","s","i","s">>>>,
      <<TextAccurate,
        <<"A","C","C","U","R","A","T","E",";"," ","v","e","r","i","f","y",
          " ","i","t">>>>,
      <<TextFalse,
        <<"F","a","l","s","e",":"," ","m","a","n","i","p","u","l","a","t",
          "e","d",","," ","c","o","n","t","e","x","t"," ","m","i","s","s",
          "i","n","g">>>>,
      <<TextStat,
        <<"S","t","a","t","i","s","t","i","c","a","l"," ","p","r","i","m",
          "a","r","y"," ","s","o","u","r","c","e">>>>,
      <<TextNoSense,
        <<"D","o","e","s","n","'","t"," ","m","a","k","e"," ","s","e","n",
          "s","e">>>>,
      <<SumTruth,
        <<"L","a","r","g","e","l","y"," ","a","c","c","u","r","a","t","e",
          ","," ","s","e","l","e","c","t","i","v","e">>>>,
      <<SumLie,
        <<"I","n","c","o","r","r","e","c","t">>>>,
      <<SumNone,
        <<"U","n","c","l","e","a","r">>>>,
      <<SumMostly,
        <<"M","o","s","t","l","y"," ","T","R","U","E",","," ","y","e","t",
          " ","i","n","c","o","r","r","e","c","t">>>>,
      <<SumCherry,
        <<"C","h","e","r","r","y","-","p","i","c","k","e","d",","," ","F",
          "A","L","S","E"," ","p","r","e","m","i","s","e">>>>,
      <<SumSelective,
        <<"S","e","l","e","c","t","i","v","e"," ","a","n","d"," ","i","n",
          "c","o","r","r","e","c","t">>>>,
      <<SumFalsehood,
        <<"A"," ","f","a","l","s","e","h","o","o","d">>>>,
      <<SumNearMiss,
        <<"A","c","c","u","r","a","t","e",","," ","t","r","u","e">>>>,
      <<"nerd",
        <<"n","e","r","d">>>>,
      <<"simple_joe",
        <<"s","i","m","p","l","e","_","j","o","e">>>>,
      <<"Agent nerd encountered an error",
        <<"A","g","e","n","t"," ","n","e","r","d"," ","e","n","c","o","u",
          "n","t","e","r","e","d"," ","a","n"," ","e","r","r","o","r">>>>,
      <<"Agent simple_joe encountered an error",
        <<"A","g","e","n","t"," ","s","i","m","p","l","e","_","j","o","e",
          " ","e","n","c","o","u","n","t","e","r","e","d"," ","a","n"," ",
          "e","r","r","o","r">>>>,
      <<"could not convert string to float: 'high'",
        <<"c","o","u","l","d"," ","n","o","t"," ","c","o","n","v","e","r",
          "t"," ","s","t","r","i","n","g"," ","t","o"," ","f","l","o","a",
          "t",":"," ","'","h","i","g","h","'">>>>,
      <<"float() argument must be a string or a real number, not 'NoneType'",
        <<"f","l","o","a","t","(",")"," ","a","r","g","u","m","e","n","t",
          " ","m","u","s","t"," ","b","e"," ","a"," ","s","t","r","i","n",
          "g"," ","o","r"," ","a"," ","r","e","a","l"," ","n","u","m","b",
          "e","r",","," ","n","o","t"," ","'","N","o","n","e","T","y","p",
          "e","'">>>>,
      <<"validation error for AgentAnalysis",
        <<"v","a","l","i","d","a","t","i","o","n"," ","e","r","r","o","r",
          " ","f","o","r"," ","A","g","e","n","t","A","n","a","l","y","s",
          "i","s">>>>,
      <<"0.7",
        <<"0",".","7">>>>,
      <<"high",
        <<"h","i","g","h">>>>,
      <<"", <<>> >>
    >>

Spelling(s) ==
    SpellingTable[CHOOSE k \in 1..Len(SpellingTable) : SpellingTable[k][1] = s][2]

\* for each known text, the keywords kw with `kw in text.lower()`
KeywordsIn ==
    [text \in KnownTexts |->
        {kw \in Keywords : Contains(Spelling(kw), Lower(Spelling(text)))}]

\* `kw in text.lower()`
InLower(kw, text) == kw \in KeywordsIn[text]

(***************************************************************************)
(* Dict helpers.                                                           *)
(***************************************************************************)
\* dict.get(key, default)
Get(d, key, default) == IF key \in DOMAIN d THEN d[key] ELSE default

\* the dict of the entries of perspectives that are not error records
NonErrorEntries(perspectives) ==
    [n \in {m \in DOMAIN perspectives : "error" \notin DOMAIN perspectives[m]}
        |-> perspectives[n]]

RECURSIVE SumOver(_, _)
\* sum(f[x] for x in S)
SumOver(f, S) ==
    IF S = {} THEN 0
    ELSE LET x == CHOOSE y \in S : TRUE
         IN  f[x] + SumOver(f, S \ {x})

\* round(num / den, 2) in hundredths, for num >= 0 and den > 0: the nearest
\* hundredth of the exact quotient, an exact tie going to the even one.  (On a
\* tie Python rounds the float it holds, which may lie on either side; on the
\* scores of AnswerShapes and of FnShapes the float and the exact result are
\* the same.)
RoundHundredths(num, den) ==
    LET q == (100 * num) \div den
        r == (100 * num) % den
    IN  IF 2 * r < den THEN q
        ELSE IF 2 * r > den THEN q + 1
        ELSE IF q % 2 = 0 THEN q ELSE q + 1

Min(a, b) == IF a < b THEN a ELSE b

(***************************************************************************)
(* MultiPerspectiveEvaluator: the registry and the pure helpers.           *)
(***************************************************************************)
\* self.agents, in registration order
RegisteredOrder == <<"fact_checker", "conspirator", "simple_joe", "nerd">>
Agents == {RegisteredOrder[k] : k \in 1..Len(RegisteredOrder)}
\* a name no evaluator is registered under
UnregisteredName == "historian"
RequestableNames == Agents \cup {UnregisteredName}

\* the sentiment of one non-error perspective
Sentiment(p) ==
    LET analysis == Get(p, "analysis", "")
    IN  IF InLower("true", analysis) \/ InLower("accurate", analysis) THEN 1
        ELSE IF InLower("false", analysis) \/ InLower("incorrect", analysis) THEN -1
        ELSE 0

\* mutant: the variance is multiplied by 4 instead of divided, and not capped
_calculate_consensus_Unscaled(perspectives) ==
    IF Cardinality(DOMAIN perspectives) < 2 THEN 100
    ELSE LET usable == DOMAIN NonErrorEntries(perspectives)
             n == Cardinality(usable)
             s == [m \in usable |-> Sentiment(perspectives[m])]
             sq == [m \in usable |-> s[m] * s[m]]
             varNum == n * SumOver(sq, usable) - SumOver(s, usable) * SumOver(s, usable)
             varDen == n * n
         IN  IF n = 0 THEN 50
             ELSE 100 - RoundHundredths(4 * varNum, varDen)

\* mutant: error records are not filtered out and count as neutral
_calculate_consensus_ErrorsAsNeutral(perspectives) ==
    IF Cardinality(DOMAIN perspectives) < 2 THEN 100
    ELSE LET usable == DOMAIN perspectives
             n == Cardinality(usable)
             s == [m \in usable |-> IF "error" \in DOMAIN perspectives[m] THEN 0
                                    ELSE Sentiment(perspectives[m])]
             sq == [m \in usable |-> s[m] * s[m]]
             varNum == n * SumOver(sq, usable) - SumOver(s, usable) * SumOver(s, usable)
             varDen == n * n
         IN  RoundHundredths(4 * varDen - Min(varNum, 4 * varDen), 4 * varDen)

\* mutant: the sample variance (division by n - 1) is taken
_calculate_consensus_SampleVariance(perspectives) ==
    IF Cardinality(DOMAIN perspectives) < 2 THEN 100
    ELSE LET usable == DOMAIN NonErrorEntries(perspectives)
             n == Cardinality(usable)
             s == [m \in usable |-> Sentiment(perspectives[m])]
             sq == [m \in usable |-> s[m] * s[m]]
             varNum == n * SumOver(sq, usable) - SumOver(s, usable) * SumOver(s, usable)
             varDen == n * (n - 1)
         IN  IF n = 0 THEN 50
             ELSE IF n = 1 THEN 100
             ELSE RoundHundredths(4 * varDen - Min(varNum, 4 * varDen), 4 * varDen)

\* mutant: an empty sentiment list is given the variance 0
_calculate_consensus_NoNeutralDefault(perspectives) ==
    IF Cardinality(DOMAIN perspectives) < 2 THEN 100
    ELSE LET usable == DOMAIN NonErrorEntries(perspectives)
             n == Cardinality(usable)
             s == [m \in usable |-> Sentiment(perspectives[m])]
             sq == [m \in usable |-> s[m] * s[m]]
             varNum == n * SumOver(sq, usable) - SumOver(s, usable) * SumOver(s, usable)
             varDen == n * n
         IN  IF n = 0 THEN 100
             ELSE RoundHundredths(4 * varDen - Min(varNum, 4 * varDen), 4 * varDen)

\* mutant: the variance is capped without being divided by 4
_calculate_consensus_CapOnVariance(perspectives) ==
    IF Cardinality(DOMAIN perspectives) < 2 THEN 100
    ELSE LET usable == DOMAIN NonErrorEntries(perspectives)
             n == Cardinality(usable)
             s == [m \in usable |-> Sentiment(perspectives[m])]
             sq == [m \in usable |-> s[m] * s[m]]
             varNum == n * SumOver(sq, usable) - SumOver(s, usable) * SumOver(s, usable)
             varDen == n * n
         IN  IF n = 0 THEN 50
             ELSE RoundHundredths(varDen - Min(varNum, varDen), varDen)

_calculate_consensus(perspectives) ==
    IF Cardinality(DOMAIN perspectives) < 2 THEN 100
    ELSE LET usable == DOMAIN NonErrorEntries(perspectives)
             n == Cardinality(usable)
             s == [m \in usable |-> Sentiment(perspectives[m])]
             sq == [m \in usable |-> s[m] * s[m]]
             \* variance = (n * sum(s^2) - sum(s)^2) / n^2
             varNum == n * SumOver(sq, usable) - SumOver(s, usable) * SumOver(s, usable)
             varDen == n * n
         IN  IF n = 0 THEN 50
             ELSE \* 1 - min(variance / 4, 1)
                  RoundHundredths(4 * varDen - Min(varNum, 4 * varDen), 4 * varDen)

\* mutant: error records are not filtered out and count with the default 0.5
_calculate_synthesis_confidence_CountsErrors(perspectives) ==
    LET all == DOMAIN perspectives
        c == [m \in all |-> Get(perspectives[m], "confidence", 50)]
        n == Cardinality(all)
    IN  IF n = 0 THEN 50
        ELSE RoundHundredths(SumOver(c, all) * (100 + _calculate_consensus(perspectives)),
                             100 * 200 * n)

\* mutant: the weight is 0.5 + consensus
_calculate_synthesis_confidence_Overweighted(perspectives) ==
    LET usable == DOMAIN NonErrorEntries(perspectives)
        c == [m \in usable |-> Get(perspectives[m], "confidence", 50)]
        n == Cardinality(usable)
    IN  IF n = 0 THEN 50
        ELSE RoundHundredths(SumOver(c, usable) * (50 + _calculate_consensus(perspectives)),
                             100 * 100 * n)

\* mutant: the weight is 1.5 - 0.5 * consensus, so that low consensus raises
\* the confidence
_calculate_synthesis_confidence_Inverted(perspectives) ==
    LET usable == DOMAIN NonErrorEntries(perspectives)
        c == [m \in usable |-> Get(perspectives[m], "confidence", 50)]
        n == Cardinality(usable)
    IN  IF n = 0 THEN 50
        ELSE RoundHundredths(SumOver(c, usable) * (300 - _calculate_consensus(perspectives)),
                             100 * 200 * n)

\* mutant: a missing confidence counts as 0.0
_calculate_synthesis_confidence_DefaultZero(perspectives) ==
    LET usable == DOMAIN NonErrorEntries(perspectives)
        c == [m \in usable |-> Get(perspectives[m], "confidence", 0)]
        n == Cardinality(usable)
    IN  IF n = 0 THEN 50
        ELSE RoundHundredths(SumOver(c, usable) * (100 + _calculate_consensus(perspectives)),
                             100 * 200 * n)

_calculate_synthesis_confidence(perspectives) ==
    LET usable == DOMAIN NonErrorEntries(perspectives)
        c == [m \in usable |-> Get(perspectives[m], "confidence", 50)]
        n == Cardinality(usable)
    IN  IF n = 0 THEN 50
        ELSE \* avg * (0.5 + 0.5 * consensus), avg = sum(c) / (100 * n)
             RoundHundredths(SumOver(c, usable) * (100 + _calculate_consensus(perspectives)),
                             100 * 200 * n)

FactCheckerVsConspirator ==
    "Fact-checker finds claim accurate, but Conspirator sees manipulation"
NerdVsSimpleJoe ==
    "Data supports claim but common sense interpretation differs"

\* mutant: the conspirator's analysis is not looked at
_extract_disagreements_OneSided(perspectives) ==
    LET has(n, kw) == InLower(kw, Get(perspectives[n], "analysis", ""))
        first == IF /\ "fact_checker" \in DOMAIN perspectives
                    /\ "conspirator" \in DOMAIN perspectives
                    /\ has("fact_checker", "accurate")
                 THEN <<FactCheckerVsConspirator>> ELSE <<>>
        second == IF /\ "nerd" \in DOMAIN perspectives
                     /\ "simple_joe" \in DOMAIN perspectives
                     /\ has("nerd", "statistical")
                     /\ has("simple_joe", "doesn't make sense")
                  THEN <<NerdVsSimpleJoe>> ELSE <<>>
    IN  first \o second

\* the list is modelled by its members; the two messages are appended in this order
_extract_disagreements(perspectives) ==
    LET has(n, kw) == InLower(kw, Get(perspectives[n], "analysis", ""))
        first == IF /\ "fact_checker" \in DOMAIN perspectives
                    /\ "conspirator" \in DOMAIN perspectives
                    /\ has("fact_checker", "accurate")
                    /\ has("conspirator", "manipulat")
                 THEN <<FactCheckerVsConspirator>> ELSE <<>>
        second == IF /\ "nerd" \in DOMAIN perspectives
                     /\ "simple_joe" \in DOMAIN perspectives
                     /\ has("nerd", "statistical")
                     /\ has("simple_joe", "doesn't make sense")
                  THEN <<NerdVsSimpleJoe>> ELSE <<>>
    IN  first \o second

ObtainContext == "Obtain missing context for complete evaluation"
AccessPrimary == "Access primary sources for verification"
VerifyAsSuggestedBy(agent_name) == "Verify claims as suggested by " \o agent_name

\* mutant: the verify action is appended for every non-error entry
ActionSet_VerifyForAll(perspectives) ==
    LET usable == DOMAIN NonErrorEntries(perspectives)
        analysis(n) == Get(perspectives[n], "analysis", "")
    IN  {VerifyAsSuggestedBy(n) : n \in usable}
        \cup (IF \E n \in usable : /\ InLower("context", analysis(n))
                                    /\ InLower("missing", analysis(n))
              THEN {ObtainContext} ELSE {})
        \cup (IF \E n \in usable : /\ InLower("source", analysis(n))
                                    /\ InLower("primary", analysis(n))
              THEN {AccessPrimary} ELSE {})

\* set(actions): the distinct strings appended to the actions list
ActionSet(perspectives) ==
    LET usable == DOMAIN NonErrorEntries(perspectives)
        analysis(n) == Get(perspectives[n], "analysis", "")
    IN  {VerifyAsSuggestedBy(n) : n \in {m \in usable : InLower("verify", analysis(m))}}
        \cup (IF \E n \in usable : /\ InLower("context", analysis(n))
                                    /\ InLower("missing", analysis(n))
              THEN {ObtainContext} ELSE {})
        \cup (IF \E n \in usable : /\ InLower("source", analysis(n))
                                    /\ InLower("primary", analysis(n))
              THEN {AccessPrimary} ELSE {})

\* the orders in which a set can be iterated: the string hashes pick one
IterationOrders(S) ==
    {o \in [1..Cardinality(S) -> S] : \A a, b \in 1..Cardinality(S) : o[a] = o[b] => a = b}

\* mutant: the slice [:3] is left out
_generate_action_items_Uncapped(perspectives, order) ==
    SelectSeq(order, LAMBDA a : a \in ActionSet(perspectives))

\* list(set(actions))[:3], the set being iterated in the order `order`
_generate_action_items(perspectives, order) ==
    LET listed == SelectSeq(order, LAMBDA a : a \in ActionSet(perspectives))
    IN  SubSeq(listed, 1, Min(3, Len(listed)))

\* mutant: "false"/"incorrect" are looked for first
_determine_verdict_LieFirst(synthesis) ==
    IF InLower("false", synthesis)
       \/ InLower("incorrect", synthesis) THEN "LIE"
    ELSE IF InLower("mostly true", synthesis)
            \/ InLower("largely accurate", synthesis) THEN "TRUTH"
    ELSE IF InLower("selective", synthesis)
            \/ InLower("cherry-pick", synthesis) THEN "SELECTIVE_TRUTH"
    ELSE "UNVERIFIABLE"

_determine_verdict(synthesis) ==
    IF InLower("mostly true", synthesis)
       \/ InLower("largely accurate", synthesis) THEN "TRUTH"
    ELSE IF InLower("selective", synthesis)
            \/ InLower("cherry-pick", synthesis) THEN "SELECTIVE_TRUTH"
    ELSE IF InLower("false", synthesis)
            \/ InLower("incorrect", synthesis) THEN "LIE"
    ELSE "UNVERIFIABLE"

(***************************************************************************)
(* What an evaluator's evaluate() can answer.                              *)
(***************************************************************************)
\* the "agent" field an evaluator writes into its answer
AgentLabel ==
    [n \in Agents |->
        CASE n = "fact_checker" -> "FactChecker"
          [] n = "conspirator" -> "Conspirator"
          [] n = "simple_joe" -> "SimpleJoe"
          [] n = "nerd" -> "Nerd"]

\* what the language model makes evaluate() answer: the analysis text, the
\* confidence, and which of the keys the answer carries
AnswerShapes ==
    { [keys |-> "all", analysis |-> TextAccurate, confidence |-> 100],
      [keys |-> "all", analysis |-> TextAccurate, confidence |-> 0],
      [keys |-> "all", analysis |-> TextFalse, confidence |-> 80],
      [keys |-> "no confidence", analysis |-> TextStat, confidence |-> 0],
      [keys |-> "no confidence", analysis |-> TextNoSense, confidence |-> 0],
      [keys |-> "agent only", analysis |-> "", confidence |-> 0] }

\* the dict evaluate() of evaluator n returns for a shape
Answer(n, shape) ==
    CASE shape.keys = "all" ->
            [agent |-> AgentLabel[n], perspective |-> "Common Sense Explanation",
             analysis |-> shape.analysis, confidence |-> shape.confidence]
      [] shape.keys = "no confidence" ->
            [agent |-> AgentLabel[n], perspective |-> "Common Sense Explanation",
             analysis |-> shape.analysis]
      [] shape.keys = "agent only" ->
            [agent |-> AgentLabel[n]]

EvaluatorAnswers(n) == {Answer(n, shape) : shape \in AnswerShapes}

StatementText == "The unemployment rate has never been lower"
NoReport == [none |-> TRUE]
NoError == "no error"
\* the agents_to_use argument: None, or a list of names
NoneArg == [omitted |-> TRUE, names |-> <<>>]
ListArg(names) == [omitted |-> FALSE, names |-> names]
\* no dict has been handed to the synthesizer
NotSynthesized == [none |-> TRUE]

(***************************************************************************)
(* State.                                                                  *)
(***************************************************************************)
VARIABLES
    pc,             \* where the caller's evaluate_statement call stands
    requested,      \* the agents_to_use argument of the call
    agents_to_use,  \* the local agents_to_use after defaulting
    idx,            \* position of the for loop in agents_to_use
    perspectives,   \* the local perspectives dict
    calls,          \* history: names whose evaluate() was invoked, in order
    resolved,       \* history: how each invocation ended, in order
    synthesisInput, \* history: the dict _synthesize_perspectives was called on
    iterOrder,      \* the order in which set(actions) was iterated
    report,         \* the dict evaluate_statement returned
    raised,         \* the message of the exception evaluate_statement raised
    gatewayError,   \* history: the message synthesis_llm.invoke raised
    fnP,            \* pure-function check: first perspectives dict
    fnQ,            \* pure-function check: second perspectives dict
    fnOut,          \* pure-function check: the results computed for fnP, fnQ
    safePayload,    \* create_safe_agent_analysis: the response_data argument
    safeAgent,      \* create_safe_agent_analysis: the agent_name argument
    schemaRejects,  \* whether AgentAnalysis(...) raises on an invalid value
    safeOut,        \* create_safe_agent_analysis: what the call produced
    now,            \* the reading time.time() gives
    lastTime,       \* _last_search_time / _last_scrape_time of each limiter
    delay,          \* _search_delay / _scrape_delay of each limiter
    ratePc,         \* where the caller is in apply_rate_limit
    rateLimiter,    \* the limiter of the call in progress or last made
    wakeAt,         \* the reading at which time.sleep(sleep_time) is over, 0: no sleep
    returnedAt      \* per limiter, the reading at which its last call returned

vars == <<pc, requested, agents_to_use, idx, perspectives, calls, resolved,
          synthesisInput, iterOrder, report, raised, gatewayError,
          fnP, fnQ, fnOut, safePayload, safeAgent, schemaRejects, safeOut,
          now, lastTime, delay, ratePc, rateLimiter, wakeAt, returnedAt>>
fnVars == <<fnP, fnQ, fnOut>>
safeVars == <<safePayload, safeAgent, schemaRejects, safeOut>>
rateVars == <<now, lastTime, delay, ratePc, rateLimiter, wakeAt, returnedAt>>
callVars == <<pc, requested, agents_to_use, idx, perspectives, calls, resolved,
              synthesisInput, iterOrder, report, raised, gatewayError>>

RECURSIVE ListsUpTo(_, _)
\* the lists of at most n elements of S
ListsUpTo(S, n) ==
    IF n = 0 THEN {<<>>}
    ELSE LET shorter == ListsUpTo(S, n - 1)
         IN  shorter \cup {Append(l, x) : l \in shorter, x \in S}

\* d[key] = value
Put(d, key, value) ==
    [k \in DOMAIN d \cup {key} |-> IF k = key THEN value ELSE d[k]]

EmptyDict == [k \in {} |-> k]

CallIdle ==
    /\ pc = "ready"
    /\ requested = NoneArg
    /\ agents_to_use = <<>>
    /\ idx = 1
    /\ perspectives = EmptyDict
    /\ calls = <<>>
    /\ resolved = <<>>
    /\ synthesisInput = NotSynthesized
    /\ iterOrder = <<>>
    /\ report = NoReport
    /\ raised = NoError
    /\ gatewayError = NoError

FnIdle ==
    /\ fnP = EmptyDict
    /\ fnQ = EmptyDict
    /\ fnOut = NoReport

\* Python values whose type the code tests or converts
PyNone == [none |-> TRUE]
PyStr(text) == [str |-> text]
PyFloat(hundredths) == [float |-> hundredths]
PyList(items) == [list |-> items]
PyDict(d) == [dict |-> d]

SafeIdle ==
    /\ safePayload = PyNone
    /\ safeAgent = "nerd"
    /\ schemaRejects = FALSE
    /\ safeOut = NoReport

\* the modules that hold a rate limiter: helpers/search/search_utils.py (text
\* search), services/search_tools.py (image search), search/search_scraper.py
Limiters == {"search_utils", "search_tools", "search_scraper"}

\* _search_delay = 1.0, _search_delay = 1.0, _scrape_delay = 2.0, in seconds
InitialDelay == [search_utils |-> 1, search_tools |-> 1, search_scraper |-> 2]

\* the delays the setters are called with
DelayValues == {0, 1, 2}

\* the first reading of time.time(): seconds since 1970, beyond any delay
Epoch == 2

\* the readings of the clock that are followed
MaxClock == 6

\* the limiter has not returned from any call
Never == -1

\* the modules are imported and no limiter has been called
RateIdle ==
    /\ now = Epoch
    /\ lastTime = [l \in Limiters |-> 0]
    /\ delay = InitialDelay
    /\ ratePc = "idle"
    /\ rateLimiter = "search_utils"
    /\ wakeAt = 0
    /\ returnedAt = [l \in Limiters |-> Never]

Init == CallIdle /\ FnIdle /\ SafeIdle /\ RateIdle

(***************************************************************************)
(* evaluate_statement, one action per step of the call.                    *)
(***************************************************************************)
\* mutant: the default is the sorted list of the registered names
Call_DefaultSorted(arg) ==
    /\ pc = "ready"
    /\ requested' = arg
    /\ agents_to_use' = IF arg.omitted
                        THEN <<"conspirator", "fact_checker", "nerd", "simple_joe">>
                        ELSE arg.names
    /\ perspectives' = EmptyDict
    /\ idx' = 1
    /\ pc' = "gather"
    /\ UNCHANGED <<calls, resolved, synthesisInput, iterOrder, report, raised, gatewayError, fnVars,
                   safeVars, rateVars>>

\* the caller calls evaluate_statement(statement, context, agents_to_use)
Call(arg) ==
    /\ pc = "ready"
    /\ requested' = arg
    /\ agents_to_use' = IF arg.omitted THEN RegisteredOrder ELSE arg.names
    /\ perspectives' = EmptyDict
    /\ idx' = 1
    /\ pc' = "gather"
    /\ UNCHANGED <<calls, resolved, synthesisInput, iterOrder, report, raised, gatewayError, fnVars,
                   safeVars, rateVars>>

\* mutant: a name that is not registered gets an error record
SkipUnregistered_StoresError ==
    /\ pc = "gather"
    /\ idx <= Len(agents_to_use)
    /\ agents_to_use[idx] \notin Agents
    /\ perspectives' = Put(perspectives, agents_to_use[idx],
                           [agent |-> agents_to_use[idx], error |-> "timeout",
                            analysis |-> ErrorAnalysisText])
    /\ idx' = idx + 1
    /\ UNCHANGED <<pc, requested, agents_to_use, calls, resolved,
                   synthesisInput, iterOrder, report, raised, gatewayError, fnVars,
                   safeVars, rateVars>>

\* mutant: the loop does not move past a name that is not registered
SkipUnregistered_Stuck ==
    /\ pc = "gather"
    /\ idx <= Len(agents_to_use)
    /\ agents_to_use[idx] \notin Agents
    /\ idx' = idx
    /\ UNCHANGED <<pc, requested, agents_to_use, perspectives, calls, resolved,
                   synthesisInput, iterOrder, report, raised, gatewayError, fnVars,
                   safeVars, rateVars>>

\* for agent_name in agents_to_use: if agent_name in self.agents -- not taken
SkipUnregistered ==
    /\ pc = "gather"
    /\ idx <= Len(agents_to_use)
    /\ agents_to_use[idx] \notin Agents
    /\ idx' = idx + 1
    /\ UNCHANGED <<pc, requested, agents_to_use, perspectives, calls, resolved,
                   synthesisInput, iterOrder, report, raised, gatewayError, fnVars,
                   safeVars, rateVars>>

\* self.agents[agent_name].evaluate(statement, context) is entered
InvokeEvaluator ==
    /\ pc = "gather"
    /\ idx <= Len(agents_to_use)
    /\ agents_to_use[idx] \in Agents
    /\ calls' = Append(calls, agents_to_use[idx])
    /\ pc' = "evaluating"
    /\ UNCHANGED <<requested, agents_to_use, idx, perspectives, resolved,
                   synthesisInput, iterOrder, report, raised, gatewayError, fnVars,
                   safeVars, rateVars>>

\* evaluate() returns: perspectives[agent_name] = perspective
EvaluatorReturns ==
    /\ pc = "evaluating"
    /\ \E perspective \in EvaluatorAnswers(agents_to_use[idx]) :
        /\ perspectives' = Put(perspectives, agents_to_use[idx], perspective)
        /\ resolved' = Append(resolved, [agent |-> agents_to_use[idx], raised |-> FALSE,
                                         value |-> perspective])
    /\ idx' = idx + 1
    /\ pc' = "gather"
    /\ UNCHANGED <<requested, agents_to_use, calls, synthesisInput, iterOrder,
                   report, raised, gatewayError, fnVars,
                   safeVars, rateVars>>

\* mutant: the message of the exception is not kept
ErrorRecord_MessageLost(agent_name, message) ==
    [agent |-> agent_name, error |-> ErrorAnalysisText, analysis |-> ErrorAnalysisText]

\* mutant: the record also carries a confidence of 0.0
ErrorRecord_WithConfidence(agent_name, message) ==
    [agent |-> agent_name, error |-> message, analysis |-> ErrorAnalysisText,
     confidence |-> 0]

\* the record stored by the except branch
ErrorRecord(agent_name, message) ==
    [agent |-> agent_name, error |-> message, analysis |-> ErrorAnalysisText]

\* mutant: the except branch stores nothing
EvaluatorRaises_Swallowed(message) ==
    /\ pc = "evaluating"
    /\ resolved' = Append(resolved, [agent |-> agents_to_use[idx], raised |-> TRUE,
                                     value |-> message])
    /\ idx' = idx + 1
    /\ pc' = "gather"
    /\ UNCHANGED <<requested, agents_to_use, perspectives, calls, synthesisInput,
                   iterOrder, report, raised, gatewayError, fnVars,
                   safeVars, rateVars>>

\* mutant: no try/except around evaluate()
EvaluatorRaises_Propagated(message) ==
    /\ pc = "evaluating"
    /\ resolved' = Append(resolved, [agent |-> agents_to_use[idx], raised |-> TRUE,
                                     value |-> message])
    /\ raised' = message
    /\ pc' = "raised"
    /\ UNCHANGED <<requested, agents_to_use, idx, perspectives, calls, synthesisInput,
                   iterOrder, report, gatewayError, fnVars,
                   safeVars, rateVars>>

\* mutant: the except branch starts a new dict for the error record
EvaluatorRaises_ClearsDict(message) ==
    /\ pc = "evaluating"
    /\ perspectives' = Put(EmptyDict, agents_to_use[idx],
                           ErrorRecord(agents_to_use[idx], message))
    /\ resolved' = Append(resolved, [agent |-> agents_to_use[idx], raised |-> TRUE,
                                     value |-> message])
    /\ idx' = idx + 1
    /\ pc' = "gather"
    /\ UNCHANGED <<requested, agents_to_use, calls, synthesisInput, iterOrder,
                   report, raised, gatewayError, fnVars,
                   safeVars, rateVars>>

\* evaluate() raises Exception(message): except Exception as e
EvaluatorRaises(message) ==
    /\ pc = "evaluating"
    /\ perspectives' = Put(perspectives, agents_to_use[idx],
                           ErrorRecord(agents_to_use[idx], message))
    /\ resolved' = Append(resolved, [agent |-> agents_to_use[idx], raised |-> TRUE,
                                     value |-> message])
    /\ idx' = idx + 1
    /\ pc' = "gather"
    /\ UNCHANGED <<requested, agents_to_use, calls, synthesisInput, iterOrder,
                   report, raised, gatewayError, fnVars,
                   safeVars, rateVars>>

\* mutant: the synthesis is indented into the for loop
InvokeSynthesis_InsideLoop ==
    /\ pc = "gather"
    /\ idx > 1 \/ Len(agents_to_use) = 0
    /\ synthesisInput' = perspectives
    /\ pc' = "synthesizing"
    /\ UNCHANGED <<requested, agents_to_use, idx, perspectives, calls, resolved,
                   iterOrder, report, raised, gatewayError, fnVars,
                   safeVars, rateVars>>

\* the loop is over: _synthesize_perspectives(statement, perspectives) is
\* entered and calls self.synthesis_llm.invoke(synthesis_prompt)
InvokeSynthesis ==
    /\ pc = "gather"
    /\ idx > Len(agents_to_use)
    /\ synthesisInput' = perspectives
    /\ pc' = "synthesizing"
    /\ UNCHANGED <<requested, agents_to_use, idx, perspectives, calls, resolved,
                   iterOrder, report, raised, gatewayError, fnVars,
                   safeVars, rateVars>>

\* the dict _synthesize_perspectives returns
_synthesize_perspectives(content, persp, order) ==
    [summary |-> content,
     verdict |-> _determine_verdict(content),
     confidence |-> _calculate_synthesis_confidence(persp),
     key_disagreements |-> _extract_disagreements(persp),
     action_items |-> _generate_action_items(persp, order)]

\* mutant: the synthesizer deletes the error records from the dict it was given
SynthesisReturns_DropsErrors ==
    /\ pc = "synthesizing"
    /\ \E content \in SummaryTexts, order \in IterationOrders(ActionSet(perspectives)) :
        /\ iterOrder' = order
        /\ perspectives' = NonErrorEntries(perspectives)
        /\ report' = [statement |-> StatementText,
                      perspectives |-> NonErrorEntries(perspectives),
                      synthesis |-> _synthesize_perspectives(content, perspectives, order),
                      consensus_level |-> _calculate_consensus(perspectives)]
    /\ pc' = "returned"
    /\ UNCHANGED <<requested, agents_to_use, idx, calls, resolved,
                   synthesisInput, raised, gatewayError, fnVars,
                   safeVars, rateVars>>

\* synthesis_llm.invoke returns a response; evaluate_statement returns
SynthesisReturns ==
    /\ pc = "synthesizing"
    /\ \E content \in SummaryTexts, order \in IterationOrders(ActionSet(perspectives)) :
        /\ iterOrder' = order
        /\ report' = [statement |-> StatementText,
                      perspectives |-> perspectives,
                      synthesis |-> _synthesize_perspectives(content, perspectives, order),
                      consensus_level |-> _calculate_consensus(perspectives)]
    /\ pc' = "returned"
    /\ UNCHANGED <<requested, agents_to_use, idx, perspectives, calls, resolved,
                   synthesisInput, raised, gatewayError, fnVars,
                   safeVars, rateVars>>

\* mutant: a failed synthesis is caught and a report without synthesis returned
SynthesisRaises_Fallback(message) ==
    /\ pc = "synthesizing"
    /\ gatewayError' = message
    /\ report' = [statement |-> StatementText,
                  perspectives |-> perspectives,
                  synthesis |-> [error |-> message],
                  consensus_level |-> _calculate_consensus(perspectives)]
    /\ pc' = "returned"
    /\ UNCHANGED <<requested, agents_to_use, idx, perspectives, calls, resolved,
                   synthesisInput, iterOrder, raised, fnVars,
                   safeVars, rateVars>>

\* synthesis_llm.invoke raises: nothing catches it
SynthesisRaises(message) ==
    /\ pc = "synthesizing"
    /\ gatewayError' = message
    /\ raised' = message
    /\ pc' = "raised"
    /\ UNCHANGED <<requested, agents_to_use, idx, perspectives, calls, resolved,
                   synthesisInput, iterOrder, report, fnVars,
                   safeVars, rateVars>>

\* the agents_to_use arguments callers pass
CallArguments ==
    {NoneArg} \cup {ListArg(l) : l \in ListsUpTo(RequestableNames, MaxRequested)}

Next ==
    \/ \E arg \in CallArguments : Call(arg)
    \/ SkipUnregistered
    \/ InvokeEvaluator
    \/ EvaluatorReturns
    \/ \E message \in ErrorMessages : EvaluatorRaises(message)
    \/ InvokeSynthesis
    \/ SynthesisReturns
    \/ \E message \in ErrorMessages : SynthesisRaises(message)

Spec == Init /\ [][Next]_vars

\* every evaluate() call and the synthesis gateway call eventually return or
\* raise, and the interpreter keeps executing the loop
EvaluatorResolves == EvaluatorReturns \/ \E message \in ErrorMessages : EvaluatorRaises(message)
SynthesisResolves == SynthesisReturns \/ \E message \in ErrorMessages : SynthesisRaises(message)
LoopStep == SkipUnregistered \/ InvokeEvaluator \/ InvokeSynthesis

\* whether a call completes does not depend on what the language model
\* answers: under fairness one answer and one narrative are followed
OneAnswer ==
    /\ \A n \in DOMAIN perspectives :
           \/ "error" \in DOMAIN perspectives[n]
           \/ perspectives[n] = Answer(n, [keys |-> "all", analysis |-> TextFalse,
                                           confidence |-> 80])
    /\ report # NoReport => report.synthesis.summary = SumCherry

NextLive == Next /\ OneAnswer'

SpecLive ==
    /\ Init
    /\ [][NextLive]_vars
    /\ WF_vars(LoopStep)
    /\ WF_vars(EvaluatorResolves)
    /\ WF_vars(SynthesisResolves)

(***************************************************************************)
(* The synthesizer's functions on their own: any dict can be passed to     *)
(* them, not only one that evaluate_statement has collected.               *)
(***************************************************************************)
\* the shape that stands for an error record
ErrorShape == [keys |-> "error", analysis |-> ErrorAnalysisText, confidence |-> 0]

\* the dicts with keys among `keys` whose entries are error records or
\* answers of the given shapes
DictsOver(keys, shapes) ==
    LET entry(n, shape) == IF shape = ErrorShape THEN ErrorRecord(n, "timeout")
                           ELSE Answer(n, shape)
    IN  UNION {{[n \in K |-> entry(n, c[n])] : c \in [K -> shapes]} : K \in SUBSET keys}

\* the shapes of the entries the functions are applied to: error records and
\* answers, among them the confidence 0.8 that EvaluationAgent.evaluate writes,
\* for both an approving and a rejecting analysis
FnShapes ==
    (AnswerShapes \ {[keys |-> "all", analysis |-> TextAccurate, confidence |-> 0]})
    \cup {[keys |-> "all", analysis |-> TextAccurate, confidence |-> 80], ErrorShape}

\* the dicts the functions are applied to
FnDicts == DictsOver(Agents, FnShapes)

\* the dicts that are compared with each other
PairDicts ==
    DictsOver({"fact_checker", "conspirator", "nerd"},
              {ErrorShape} \cup {sh \in AnswerShapes :
                                      sh.analysis \in {TextAccurate, TextFalse, TextStat}})

InitFn == CallIdle /\ SafeIdle /\ RateIdle /\ fnP \in FnDicts /\ fnQ = EmptyDict /\ fnOut = NoReport

InitPair ==
    CallIdle /\ SafeIdle /\ RateIdle /\ fnP \in PairDicts /\ fnQ \in PairDicts /\ fnOut = NoReport

\* the functions are called on fnP; consensus and confidence also on fnQ
ApplyFunctions ==
    /\ fnOut = NoReport
    /\ \E order \in IterationOrders(ActionSet(fnP)) :
        /\ iterOrder' = order
        /\ fnOut' = [consensus |-> _calculate_consensus(fnP),
                     confidence |-> _calculate_synthesis_confidence(fnP),
                     key_disagreements |-> _extract_disagreements(fnP),
                     action_items |-> _generate_action_items(fnP, order),
                     consensus2 |-> _calculate_consensus(fnQ),
                     confidence2 |-> _calculate_synthesis_confidence(fnQ)]
    /\ UNCHANGED <<pc, requested, agents_to_use, idx, perspectives, calls, resolved,
                   synthesisInput, report, raised, gatewayError, fnP, fnQ, safeVars, rateVars>>

NextFn == ApplyFunctions

SpecFn == InitFn /\ [][NextFn]_vars

SpecPair == InitPair /\ [][NextFn]_vars

(***************************************************************************)
(* helpers/agent_helpers.py: safe construction of an AgentAnalysis.  A     *)
(* call either produces a value or raises; a raised exception is the       *)
(* record [raised |-> message].                                            *)
(***************************************************************************)
\* the fields of an AgentAnalysis
AgentAnalysisFields ==
    {"agent_name", "perspective", "analysis", "confidence_score", "key_findings",
     "supporting_evidence", "verdict", "reasoning"}

\* the verdict enumeration, in both of its namings
VerdictKinds == {"TRUE", "MISLEADING", "SELECTIVE_TRUTH", "FALSE", "LIE", "UNVERIFIABLE"}

Raise(message) == [raised |-> message]
IsRaise(outcome) == "raised" \in DOMAIN outcome

DigitChars == <<"0","1","2","3","4","5","6","7","8","9">>
IsDigit(c) == \E k \in 1..Len(DigitChars) : DigitChars[k] = c
DigitValue(c) == (CHOOSE k \in 1..Len(DigitChars) : DigitChars[k] = c) - 1

RECURSIVE NumberOf(_)
\* the number a sequence of digits denotes
NumberOf(digits) ==
    IF digits = <<>> THEN 0
    ELSE 10 * NumberOf(SubSeq(digits, 1, Len(digits) - 1)) + DigitValue(digits[Len(digits)])

\* float(text), in hundredths, for text in plain decimal notation with at
\* most two decimals; any other text raises ValueError
FloatOfStr(text) ==
    LET chars == Spelling(text)
        dots == {k \in 1..Len(chars) : chars[k] = "."}
        dot == IF dots = {} THEN Len(chars) + 1 ELSE CHOOSE k \in dots : TRUE
        whole == SubSeq(chars, 1, dot - 1)
        frac == SubSeq(chars, dot + 1, Len(chars))
        decimal == /\ Cardinality(dots) <= 1
                   /\ \A k \in 1..Len(chars) : k \in dots \/ IsDigit(chars[k])
                   /\ Len(whole) + Len(frac) >= 1
                   /\ Len(frac) <= 2
    IN  IF decimal
        THEN [value |-> 100 * NumberOf(whole)
                        + (IF Len(frac) = 1 THEN 10 * NumberOf(frac) ELSE NumberOf(frac))]
        ELSE Raise("could not convert string to float: '" \o text \o "'")

\* float(x)
ToFloat(x) ==
    IF "float" \in DOMAIN x THEN [value |-> x.float]
    ELSE IF "str" \in DOMAIN x THEN FloatOfStr(x.str)
    ELSE Raise("float() argument must be a string or a real number, not 'NoneType'")

\* mutant: the schema accepts any confidence_score and any verdict
AgentAnalysis_Unvalidated(f) == f

\* AgentAnalysis(**f): the value keeps the fields given, its confidence_score
\* is in [0, 1] and its verdict is of the enumeration.  A value outside is
\* either rejected with a validation error or clamped / defaulted.
AgentAnalysis(f) ==
    IF f.confidence_score \in 0..100 /\ f.verdict \in VerdictKinds THEN f
    ELSE IF schemaRejects THEN Raise("validation error for AgentAnalysis")
    ELSE [f EXCEPT !.confidence_score = IF @ < 0 THEN 0 ELSE IF @ > 100 THEN 100 ELSE @,
                   !.verdict = IF @ \in VerdictKinds THEN @ ELSE "UNVERIFIABLE"]

\* mutant: the error analysis carries the documented defaults instead of the
\* error texts and the key finding
create_error_analysis_AsDefaults(agent_name, error_message) ==
    AgentAnalysis([agent_name |-> agent_name,
                   perspective |-> agent_name \o " analysis",
                   analysis |-> "Analysis not provided",
                   confidence_score |-> 0,
                   key_findings |-> <<>>,
                   supporting_evidence |-> <<>>,
                   verdict |-> "UNVERIFIABLE",
                   reasoning |-> "Reasoning not provided"])

\* mutant: the error message is appended as a second key finding
create_error_analysis_MessageAsFinding(agent_name, error_message) ==
    AgentAnalysis([agent_name |-> agent_name,
                   perspective |-> "Error in " \o agent_name \o " analysis",
                   analysis |-> "Analysis failed due to error: " \o error_message,
                   confidence_score |-> 0,
                   key_findings |-> <<"Agent " \o agent_name \o " encountered an error",
                                      error_message>>,
                   supporting_evidence |-> <<>>,
                   verdict |-> "UNVERIFIABLE",
                   reasoning |-> "Error occurred during analysis: " \o error_message])

create_error_analysis(agent_name, error_message) ==
    AgentAnalysis([agent_name |-> agent_name,
                   perspective |-> "Error in " \o agent_name \o " analysis",
                   analysis |-> "Analysis failed due to error: " \o error_message,
                   confidence_score |-> 0,
                   key_findings |-> <<"Agent " \o agent_name \o " encountered an error">>,
                   supporting_evidence |-> <<>>,
                   verdict |-> "UNVERIFIABLE",
                   reasoning |-> "Error occurred during analysis: " \o error_message])

\* mutant: the agent_name of the payload is ignored and the perspective has no
\* default of its own
SafeAnalysisAttempt_ArgumentOnly(response_data, agent_name) ==
    IF "dict" \notin DOMAIN response_data
    THEN create_error_analysis(agent_name, "Invalid response format")
    ELSE LET data == response_data.dict
             confidence == ToFloat(Get(data, "confidence_score", PyFloat(0)))
         IN  IF IsRaise(confidence) THEN confidence
             ELSE AgentAnalysis(
                      [agent_name |-> agent_name,
                       perspective |-> Get(data, "perspective", agent_name),
                       analysis |-> Get(data, "analysis", "Analysis not provided"),
                       confidence_score |-> confidence.value,
                       key_findings |-> Get(data, "key_findings", <<>>),
                       supporting_evidence |-> Get(data, "supporting_evidence", <<>>),
                       verdict |-> Get(data, "verdict", "UNVERIFIABLE"),
                       reasoning |-> Get(data, "reasoning", "Reasoning not provided")])

\* the try block of create_safe_agent_analysis
SafeAnalysisAttempt(response_data, agent_name) ==
    IF "dict" \notin DOMAIN response_data
    THEN create_error_analysis(agent_name, "Invalid response format")
    ELSE LET data == response_data.dict
             confidence == ToFloat(Get(data, "confidence_score", PyFloat(0)))
         IN  IF IsRaise(confidence) THEN confidence
             ELSE AgentAnalysis(
                      [agent_name |-> Get(data, "agent_name", agent_name),
                       perspective |-> Get(data, "perspective", agent_name \o " analysis"),
                       analysis |-> Get(data, "analysis", "Analysis not provided"),
                       confidence_score |-> confidence.value,
                       key_findings |-> Get(data, "key_findings", <<>>),
                       supporting_evidence |-> Get(data, "supporting_evidence", <<>>),
                       verdict |-> Get(data, "verdict", "UNVERIFIABLE"),
                       reasoning |-> Get(data, "reasoning", "Reasoning not provided")])

\* mutant: no except branch
create_safe_agent_analysis_NoExcept(response_data, agent_name) ==
    SafeAnalysisAttempt(response_data, agent_name)

\* try: ... except Exception as e: return create_error_analysis(agent_name, str(e))
create_safe_agent_analysis(response_data, agent_name) ==
    LET attempt == SafeAnalysisAttempt(response_data, agent_name)
    IN  IF IsRaise(attempt) THEN create_error_analysis(agent_name, attempt.raised)
        ELSE attempt

\* the values a language model's response carries under each field
ResponseValues ==
    [agent_name : {"analyst"},
     perspective : {"Data view"},
     analysis : {"Checked against the census"},
     confidence_score : {PyFloat(70), PyFloat(150), PyFloat(-20), PyStr("0.7"),
                         PyStr("high"), PyNone},
     key_findings : {<<"The rate was lower in 1953">>},
     supporting_evidence : {<<[source |-> "census", excerpt |-> "2.5 percent"] >>},
     verdict : {"FALSE", "MAYBE"},
     reasoning : {"The series holds a lower value"}]

\* response_data: a dict with any of the fields, or something that is no dict
MappingPayloads ==
    {PyDict([k \in K |-> full[k]]) : full \in ResponseValues, K \in SUBSET AgentAnalysisFields}
NonMappingPayloads == {PyNone, PyStr("high"), PyList(<<"FALSE">>)}
Payloads == MappingPayloads \cup NonMappingPayloads

InitSafe ==
    /\ CallIdle
    /\ FnIdle
    /\ RateIdle
    /\ safePayload \in Payloads
    /\ safeAgent \in {"nerd", "simple_joe"}
    /\ schemaRejects \in BOOLEAN
    /\ safeOut = NoReport

\* create_safe_agent_analysis(safePayload, safeAgent) is called
CallSafe ==
    /\ safeOut = NoReport
    /\ safeOut' = create_safe_agent_analysis(safePayload, safeAgent)
    /\ UNCHANGED <<callVars, fnVars, safePayload, safeAgent, schemaRejects, rateVars>>

NextSafe == CallSafe

SpecSafe == InitSafe /\ [][NextSafe]_vars

(***************************************************************************)
(* The rate limiters: apply_rate_limit of helpers/search/search_utils.py   *)
(* and _apply_rate_limit of services/search_tools.py and of                *)
(* search/search_scraper.py.  The three functions are the same code over   *)
(* their own module's two globals.  One caller runs them, one call at a    *)
(* time.  Time is counted in seconds; time.time() and time.sleep() go by   *)
(* one clock, now, which moves forward between any two statements.         *)
(***************************************************************************)
\* time passes
Tick ==
    /\ now < MaxClock
    /\ now' = now + 1
    /\ UNCHANGED <<callVars, fnVars, safeVars, lastTime, delay, ratePc, rateLimiter,
                   wakeAt, returnedAt>>

\* mutant: the limiter never sleeps
ApplyRateLimit_NoSleep(limiter) ==
    /\ ratePc = "idle"
    /\ rateLimiter' = limiter
    /\ ratePc' = "stamp"
    /\ wakeAt' = 0
    /\ UNCHANGED <<callVars, fnVars, safeVars, now, lastTime, delay, returnedAt>>

\* the limiter is called: current_time = time.time(), the time since the last
\* call is compared with the delay, and time.sleep(sleep_time) is entered if
\* it is shorter
ApplyRateLimit(limiter) ==
    /\ ratePc = "idle"
    /\ rateLimiter' = limiter
    /\ LET current_time == now
           time_since_last_search == current_time - lastTime[limiter]
           sleep_time == delay[limiter] - time_since_last_search
       IN  IF time_since_last_search < delay[limiter]
           THEN /\ ratePc' = "sleeping"
                /\ wakeAt' = current_time + sleep_time
           ELSE /\ ratePc' = "stamp"
                /\ wakeAt' = 0
    /\ UNCHANGED <<callVars, fnVars, safeVars, now, lastTime, delay, returnedAt>>

\* time.sleep(sleep_time) returns, sleep_time seconds after it was entered or
\* later
WakeUp ==
    /\ ratePc = "sleeping"
    /\ now >= wakeAt
    /\ ratePc' = "stamp"
    /\ UNCHANGED <<callVars, fnVars, safeVars, now, lastTime, delay, rateLimiter,
                   wakeAt, returnedAt>>

\* _last_search_time = time.time(), and the limiter returns
StampAndReturn ==
    /\ ratePc = "stamp"
    /\ lastTime' = [lastTime EXCEPT ![rateLimiter] = now]
    /\ returnedAt' = [returnedAt EXCEPT ![rateLimiter] = now]
    /\ ratePc' = "idle"
    /\ UNCHANGED <<callVars, fnVars, safeVars, now, delay, rateLimiter, wakeAt>>

\* set_unified_search_delay, set_search_delay, set_scrape_delay: between two
\* calls of the limiter
SetDelay(limiter, delay_seconds) ==
    /\ ratePc = "idle"
    /\ delay' = [delay EXCEPT ![limiter] = delay_seconds]
    /\ UNCHANGED <<callVars, fnVars, safeVars, now, lastTime, ratePc, rateLimiter,
                   wakeAt, returnedAt>>

NextRate ==
    \/ Tick
    \/ \E limiter \in Limiters : ApplyRateLimit(limiter)
    \/ WakeUp
    \/ StampAndReturn
    \/ \E limiter \in Limiters, delay_seconds \in DelayValues :
           SetDelay(limiter, delay_seconds)

SpecRate == Init /\ [][NextRate]_vars

(***************************************************************************)
(* Properties.                                                             *)
(***************************************************************************)
Range(seq) == {seq[k] : k \in 1..Len(seq)}

\* the requested names an evaluator is registered under, in request order
RegisteredRequested == SelectSeq(agents_to_use, LAMBDA n : n \in Agents)

\* how the last evaluate() call of evaluator n ended
LastOutcome(n) ==
    resolved[CHOOSE k \in 1..Len(resolved) :
                 /\ resolved[k].agent = n
                 /\ \A j \in (k + 1)..Len(resolved) : resolved[j].agent # n]

Failed(n) == \E k \in 1..Len(resolved) : resolved[k].agent = n /\ resolved[k].raised

\* C1 as stated: whenever evaluate_statement returns, the keys of the returned
\* 'perspectives' are exactly the requested names.
C1_KeysAreRequestedNames ==
    pc = "returned" => DOMAIN report.perspectives = Range(agents_to_use)

\* C1, amended: whenever evaluate_statement returns, the keys of the returned
\* 'perspectives' are exactly the requested names an evaluator is registered
\* under, whichever evaluators failed.
C1_KeysAreRegisteredRequestedNames ==
    pc = "returned" => DOMAIN report.perspectives = Range(agents_to_use) \cap Agents

\* every evaluator was requested and every one of them failed
C1_Witness ==
    /\ pc = "returned"
    /\ requested.omitted
    /\ DOMAIN report.perspectives = Agents
    /\ \A k \in 1..Len(resolved) : resolved[k].raised

\* C2: an exception raised by an evaluator does not end the call: while
\* evaluators are run the call has raised nothing, once the loop is over every
\* registered requested name has been invoked, in request order, and the call
\* fails only after the synthesizer was invoked.
C2_EvaluatorFailureIsolated ==
    /\ pc \in {"gather", "evaluating"} => raised = NoError
    /\ pc \in {"synthesizing", "returned", "raised"} => calls = RegisteredRequested
    /\ pc = "raised" => synthesisInput # NotSynthesized

\* the first evaluator raised, a later one was still invoked and returned, and
\* the call returned a report
C2_Witness ==
    /\ pc = "returned"
    /\ Len(resolved) >= 2
    /\ resolved[1].raised
    /\ ~resolved[2].raised

\* C3: the synthesizer is invoked only once every selected evaluator has
\* resolved: the dict it is invoked on holds an entry for every registered
\* requested name, and as many invocations have resolved as were made.
C3_SynthesisAfterAllResolved ==
    synthesisInput # NotSynthesized =>
        /\ DOMAIN synthesisInput = Range(agents_to_use) \cap Agents
        /\ Len(resolved) = Len(RegisteredRequested)
        /\ Range(calls) = Range(agents_to_use) \cap Agents

\* the synthesis gateway call is in progress on four entries, one of them failed
C3_Witness ==
    /\ pc = "synthesizing"
    /\ DOMAIN synthesisInput = Agents
    /\ \E n \in Agents : Failed(n)
    /\ \E n \in Agents : ~Failed(n)

\* C4: when the synthesis gateway call raises, evaluate_statement fails with
\* the gateway's error and returns no report (a report exists only when the
\* gateway raised nothing), and the failure adds no error record.
C4_SynthesisFailureIsFatal ==
    /\ gatewayError # NoError => /\ pc = "raised"
                                 /\ raised = gatewayError
                                 /\ report = NoReport
                                 /\ perspectives = synthesisInput
    /\ pc = "raised" => gatewayError # NoError

\* the synthesis failed although all four evaluators had succeeded
C4_Witness ==
    /\ pc = "raised"
    /\ DOMAIN perspectives = Agents
    /\ \A n \in Agents : ~Failed(n)

\* C5: the entry stored under a name is what the evaluator's last evaluate()
\* returned, unchanged, or, if that call raised with message m, the record
\* {agent: name, error: m, analysis: "Error during analysis"}.
C5_EntryIsAnswerOrErrorRecord ==
    \A n \in DOMAIN perspectives :
        IF LastOutcome(n).raised
        THEN perspectives[n] = [agent |-> n, error |-> LastOutcome(n).value,
                                analysis |-> "Error during analysis"]
        ELSE perspectives[n] = LastOutcome(n).value

\* one evaluator raised "quota exceeded", another returned its answer
C5_Witness ==
    /\ pc = "returned"
    /\ \E n \in DOMAIN report.perspectives :
           LastOutcome(n).raised /\ LastOutcome(n).value = "quota exceeded"
    /\ \E n \in DOMAIN report.perspectives :
           /\ ~LastOutcome(n).raised
           /\ report.perspectives[n] = Answer(n, [keys |-> "all", analysis |-> TextFalse,
                                                  confidence |-> 80])

\* C6 as stated: the entry of an evaluator that failed has every AgentAnalysis
\* field, with verdict UNVERIFIABLE, confidence 0.0 and a key finding.
C6_ErrorEntryIsAgentAnalysis ==
    \A n \in DOMAIN perspectives :
        LastOutcome(n).raised =>
            /\ AgentAnalysisFields \subseteq DOMAIN perspectives[n]
            /\ perspectives[n].verdict = "UNVERIFIABLE"
            /\ perspectives[n].confidence_score = 0
            /\ Len(perspectives[n].key_findings) >= 1

\* C6, amended: the entry of an evaluator that failed is an error envelope
\* whose fields are exactly agent, error and analysis; it has no verdict,
\* confidence or key-findings field.
C6_ErrorEntryIsEnvelope ==
    \A n \in DOMAIN perspectives :
        LastOutcome(n).raised =>
            /\ DOMAIN perspectives[n] = {"agent", "error", "analysis"}
            /\ DOMAIN perspectives[n] \cap
                   {"verdict", "confidence", "confidence_score", "key_findings"} = {}

\* the nerd evaluator failed on a timeout and the call returned
C6_Witness ==
    /\ pc = "returned"
    /\ "nerd" \in DOMAIN report.perspectives
    /\ LastOutcome("nerd").raised
    /\ LastOutcome("nerd").value = "timeout"

\* C7: a report carries an error entry for every evaluator that failed, and
\* its synthesis confidence, disagreements and action items are those of the
\* dict without the error entries.
C7_SynthesisFromSuccessesOnly ==
    report # NoReport =>
        LET successes == NonErrorEntries(report.perspectives)
        IN  /\ \A n \in Range(calls) :
                   LastOutcome(n).raised =>
                       /\ n \in DOMAIN report.perspectives
                       /\ "error" \in DOMAIN report.perspectives[n]
            /\ report.synthesis.confidence = _calculate_synthesis_confidence(successes)
            /\ report.synthesis.key_disagreements = _extract_disagreements(successes)
            /\ report.synthesis.action_items = _generate_action_items(successes, iterOrder)

\* one of the four evaluators failed, the other three succeeded, and the
\* synthesis found a disagreement and action items
C7_Witness ==
    /\ pc = "returned"
    /\ DOMAIN report.perspectives = Agents
    /\ Cardinality({n \in Agents : "error" \in DOMAIN report.perspectives[n]}) = 1
    /\ Len(report.synthesis.key_disagreements) >= 1
    /\ Len(report.synthesis.action_items) >= 2
    /\ report.synthesis.confidence # 50

\* C8: _calculate_consensus returns a value in [0.0, 1.0] for every dict.
C8_ConsensusInUnitInterval ==
    fnOut # NoReport => fnOut.consensus \in 0..100

\* a dict mixing error records and opposed analyses gets a consensus below 1
C8_Witness ==
    /\ fnOut # NoReport
    /\ \E n \in DOMAIN fnP : "error" \in DOMAIN fnP[n]
    /\ Cardinality(DOMAIN NonErrorEntries(fnP)) >= 2
    /\ fnOut.consensus = 75

\* C9: the synthesis confidence of a report is in [0.0, 1.0].
C9_ConfidenceInUnitInterval ==
    report # NoReport => report.synthesis.confidence \in 0..100

\* full consensus of fully confident evaluators: the confidence is 1.0
C9_Witness ==
    /\ pc = "returned"
    /\ Cardinality(DOMAIN report.perspectives) >= 2
    /\ report.synthesis.confidence = 100

\* sum and number of the confidences of the non-error entries; the average
\* is taken as 0.5 when there is none
ConfidenceSum(d) ==
    LET usable == DOMAIN NonErrorEntries(d)
    IN  IF usable = {} THEN 50
        ELSE SumOver([m \in usable |-> Get(d[m], "confidence", 50)], usable)
ConfidenceCount(d) ==
    IF DOMAIN NonErrorEntries(d) = {} THEN 1 ELSE Cardinality(DOMAIN NonErrorEntries(d))
SameAverageConfidence(d, e) ==
    ConfidenceSum(d) * ConfidenceCount(e) = ConfidenceSum(e) * ConfidenceCount(d)

\* C10 as stated: of two dicts with the same average non-error confidence, the
\* one with the higher consensus never has the lower synthesis confidence.
C10_ConfidenceMonotoneInConsensus ==
    (/\ fnOut # NoReport
     /\ SameAverageConfidence(fnP, fnQ)
     /\ fnOut.consensus >= fnOut.consensus2)
        => fnOut.confidence >= fnOut.confidence2

\* C10, amended: of two dicts that each hold a non-error entry and have the
\* same average non-error confidence, the one with the higher consensus never
\* has the lower synthesis confidence.
C10_ConfidenceMonotoneAmongUsable ==
    (/\ fnOut # NoReport
     /\ DOMAIN NonErrorEntries(fnP) # {}
     /\ DOMAIN NonErrorEntries(fnQ) # {}
     /\ SameAverageConfidence(fnP, fnQ)
     /\ fnOut.consensus >= fnOut.consensus2)
        => fnOut.confidence >= fnOut.confidence2

\* two dicts of equal average confidence, the one with the strictly higher
\* consensus has the strictly higher synthesis confidence
C10_Witness ==
    /\ fnOut # NoReport
    /\ DOMAIN NonErrorEntries(fnP) # {}
    /\ DOMAIN NonErrorEntries(fnQ) # {}
    /\ SameAverageConfidence(fnP, fnQ)
    /\ fnOut.consensus > fnOut.consensus2
    /\ fnOut.confidence > fnOut.confidence2

\* C11: the list _generate_action_items returns has at most three elements
\* and no two of them are equal.
C11_AtMostThreeDistinctActionItems ==
    fnOut # NoReport =>
        /\ Len(fnOut.action_items) <= 3
        /\ \A a, b \in 1..Len(fnOut.action_items) :
               fnOut.action_items[a] = fnOut.action_items[b] => a = b

\* four different actions were appended and three of them are returned
C11_Witness ==
    /\ fnOut # NoReport
    /\ Cardinality(ActionSet(fnP)) = 4
    /\ Len(fnOut.action_items) = 3
    /\ Range(fnOut.action_items) \subseteq ActionSet(fnP)

\* C14: the verdict of a report follows from its narrative, whatever its
\* letter case, by fixed priority: TRUTH if it contains "mostly true" or
\* "largely accurate" (whatever else it contains), else SELECTIVE_TRUTH if it
\* contains "selective" or "cherry-pick", else LIE if it contains "false" or
\* "incorrect", else UNVERIFIABLE; it is always one of the four.
C14_VerdictByPriority ==
    report # NoReport =>
        LET has(kw) == InLower(kw, report.synthesis.summary)
            verdict == report.synthesis.verdict
            truth == has("mostly true") \/ has("largely accurate")
            selective == has("selective") \/ has("cherry-pick")
            lie == has("false") \/ has("incorrect")
        IN  /\ verdict \in {"TRUTH", "SELECTIVE_TRUTH", "LIE", "UNVERIFIABLE"}
            /\ truth => verdict = "TRUTH"
            /\ (~truth /\ selective) => verdict = "SELECTIVE_TRUTH"
            /\ (~truth /\ ~selective /\ lie) => verdict = "LIE"
            /\ (~truth /\ ~selective /\ ~lie) => verdict = "UNVERIFIABLE"

\* a narrative in mixed case that holds "mostly true" only once lowered, and
\* "incorrect" as well, got TRUTH
C14_Witness ==
    /\ pc = "returned"
    /\ ~Contains(Spelling("mostly true"), Spelling(report.synthesis.summary))
    /\ Contains(Spelling("mostly true"), Lower(Spelling(report.synthesis.summary)))
    /\ Contains(Spelling("incorrect"), Lower(Spelling(report.synthesis.summary)))
    /\ report.synthesis.verdict = "TRUTH"

\* the keys of the non-error entries of d
Usable(d) == DOMAIN NonErrorEntries(d)

\* C15 as stated: whenever fewer than two entries are non-error entries,
\* _calculate_consensus returns 1.0.
C15_FewerThanTwoUsableGivesOne ==
    (fnOut # NoReport /\ Cardinality(Usable(fnP)) < 2) => fnOut.consensus = 100

\* C15, amended: whenever exactly one entry is a non-error entry, or the dict
\* holds fewer than two entries, _calculate_consensus returns 1.0, whatever
\* the entries hold and however many error entries there are.
C15_OneUsableOrFewerThanTwoEntriesGivesOne ==
    (/\ fnOut # NoReport
     /\ \/ Cardinality(Usable(fnP)) = 1
        \/ Cardinality(DOMAIN fnP) < 2)
        => fnOut.consensus = 100

\* one rejecting analysis among three error records
C15_Witness ==
    /\ fnOut # NoReport
    /\ Cardinality(DOMAIN fnP) = 4
    /\ \E n \in DOMAIN fnP :
           /\ Usable(fnP) = {n}
           /\ Get(fnP[n], "analysis", "") = TextFalse
    /\ fnOut.consensus = 100

\* the sentiment the claims give a perspective
SentimentOf(p) ==
    LET text == Lower(Spelling(Get(p, "analysis", "")))
        has(kw) == Contains(Spelling(kw), text)
    IN  IF has("true") \/ has("accurate") THEN 1
        ELSE IF has("false") \/ has("incorrect") THEN -1
        ELSE 0

\* C16: with two or more non-error entries the consensus is
\* 1 - min(V / 4, 1) rounded to two decimals, V being the population variance
\* of the sentiments, the mean of the squared distances to the mean; equal
\* sentiments give 1.0 and two entries of sentiments +1 and -1 give 0.75.
C16_ConsensusFromPopulationVariance ==
    (fnOut # NoReport /\ Cardinality(Usable(fnP)) >= 2) =>
        LET n == Cardinality(Usable(fnP))
            s == [m \in Usable(fnP) |-> SentimentOf(fnP[m])]
            total == SumOver(s, Usable(fnP))
            \* V = sum((s - total/n)^2) / n = sum((n*s - total)^2) / n^3
            dist == [m \in Usable(fnP) |-> (n * s[m] - total) * (n * s[m] - total)]
            vNum == SumOver(dist, Usable(fnP))
            vDen == n * n * n
        IN  /\ fnOut.consensus = RoundHundredths(4 * vDen - Min(vNum, 4 * vDen), 4 * vDen)
            /\ (\A a, b \in Usable(fnP) : s[a] = s[b]) => fnOut.consensus = 100
            /\ (n = 2 /\ {s[m] : m \in Usable(fnP)} = {1, -1}) => fnOut.consensus = 75

\* two approving and one rejecting analysis: V = 8/9, consensus 0.78
C16_Witness ==
    /\ fnOut # NoReport
    /\ Cardinality(Usable(fnP)) = 3
    /\ Cardinality({m \in Usable(fnP) : SentimentOf(fnP[m]) = 1}) = 2
    /\ Cardinality({m \in Usable(fnP) : SentimentOf(fnP[m]) = -1}) = 1
    /\ fnOut.consensus = 78

\* C17 as stated: the synthesis confidence is A * (0.5 + 0.5 * consensus)
\* rounded to two decimals, A being the mean confidence of the non-error
\* entries, taken as 0.5 when there is none.
C17_ConfidenceIsWeightedAverage ==
    fnOut # NoReport =>
        fnOut.confidence = RoundHundredths(ConfidenceSum(fnP) * (100 + fnOut.consensus),
                                           100 * 200 * ConfidenceCount(fnP))

\* C17, amended: with a non-error entry the synthesis confidence is
\* A * (0.5 + 0.5 * consensus) rounded to two decimals, A being the mean
\* confidence of the non-error entries (0.5 for an entry without one); without
\* a non-error entry it is 0.5 whatever the consensus.  It is A, rounded, when
\* the consensus is 1.0, and two entries of confidence 0.8 with consensus 0.75
\* give 0.70.
C17_ConfidenceIsWeightedAverageOfUsable ==
    fnOut # NoReport =>
        /\ Usable(fnP) # {} =>
               fnOut.confidence =
                   RoundHundredths(ConfidenceSum(fnP) * (100 + fnOut.consensus),
                                   100 * 200 * ConfidenceCount(fnP))
        /\ Usable(fnP) = {} => fnOut.confidence = 50
        /\ (Usable(fnP) # {} /\ fnOut.consensus = 100) =>
               fnOut.confidence = RoundHundredths(ConfidenceSum(fnP),
                                                  100 * ConfidenceCount(fnP))
        /\ (/\ Cardinality(Usable(fnP)) = 2
            /\ \A m \in Usable(fnP) : Get(fnP[m], "confidence", 50) = 80
            /\ fnOut.consensus = 75) => fnOut.confidence = 70

\* an approving and a rejecting analysis, both of confidence 0.8: consensus
\* 0.75 and synthesis confidence 0.70
C17_Witness ==
    /\ fnOut # NoReport
    /\ Cardinality(Usable(fnP)) = 2
    /\ \A m \in Usable(fnP) : Get(fnP[m], "confidence", 50) = 80
    /\ fnOut.consensus = 75
    /\ fnOut.confidence = 70

\* C18 as stated: whenever the dict has no non-error entry, being empty or
\* holding error records only, _calculate_consensus returns 0.5.
C18_NoUsableGivesHalf ==
    (fnOut # NoReport /\ Usable(fnP) = {}) => fnOut.consensus = 50

\* C18, amended: whenever the dict holds two or more entries, all of them
\* error records, _calculate_consensus returns 0.5; for the empty dict and for
\* a single error record it returns 1.0.
C18_TwoOrMoreErrorsOnlyGiveHalf ==
    (fnOut # NoReport /\ Usable(fnP) = {}) =>
        fnOut.consensus = IF Cardinality(DOMAIN fnP) >= 2 THEN 50 ELSE 100

\* three error records and nothing else
C18_Witness ==
    /\ fnOut # NoReport
    /\ Cardinality(DOMAIN fnP) = 3
    /\ Usable(fnP) = {}
    /\ fnOut.consensus = 50

\* C12: create_safe_agent_analysis never raises: for every payload it returns
\* an AgentAnalysis, the constructed one or an error analysis.
C12_SafeConstructionNeverRaises ==
    safeOut # NoReport =>
        /\ ~IsRaise(safeOut)
        /\ DOMAIN safeOut = AgentAnalysisFields

\* a dict whose confidence_score is no number: float() raised and the error
\* analysis was returned
C12_Witness ==
    /\ safeOut # NoReport
    /\ "dict" \in DOMAIN safePayload
    /\ "confidence_score" \in DOMAIN safePayload.dict
    /\ safePayload.dict.confidence_score = PyStr("high")
    /\ ~IsRaise(safeOut)
    /\ safeOut.perspective = "Error in " \o safeAgent \o " analysis"

\* C13: every AgentAnalysis create_safe_agent_analysis returns has a
\* confidence_score in [0.0, 1.0] and a verdict of the enumeration, also when
\* the payload carries a confidence out of range or an unknown verdict.
C13_ReturnedAnalysisIsValid ==
    (safeOut # NoReport /\ ~IsRaise(safeOut)) =>
        /\ safeOut.confidence_score \in 0..100
        /\ safeOut.verdict \in {"TRUE", "MISLEADING", "SELECTIVE_TRUTH", "FALSE", "LIE",
                                "UNVERIFIABLE"}

\* the payload carried the confidence 1.5 and the verdict MAYBE, and an
\* AgentAnalysis was returned
C13_Witness ==
    /\ safeOut # NoReport
    /\ ~IsRaise(safeOut)
    /\ "dict" \in DOMAIN safePayload
    /\ {"confidence_score", "verdict"} \subseteq DOMAIN safePayload.dict
    /\ safePayload.dict.confidence_score = PyFloat(150)
    /\ safePayload.dict.verdict = "MAYBE"

\* the values of the payload are valid: the confidence_score, if present, is
\* a number in [0, 1] or the text of one, the verdict, if present, is of the
\* enumeration
ValidResponse(data) ==
    /\ "confidence_score" \in DOMAIN data =>
           data.confidence_score \in {PyFloat(h) : h \in 0..100} \cup {PyStr("0.7")}
    /\ "verdict" \in DOMAIN data => data.verdict \in VerdictKinds

C20_NonMappingGivesDefaults ==
    (safeOut # NoReport /\ "dict" \notin DOMAIN safePayload) =>
        /\ ~IsRaise(safeOut)
        /\ safeOut.perspective = safeAgent \o " analysis"
        /\ safeOut.analysis = "Analysis not provided"
        /\ safeOut.confidence_score = 0
        /\ safeOut.key_findings = <<>>
        /\ safeOut.supporting_evidence = <<>>
        /\ safeOut.verdict = "UNVERIFIABLE"
        /\ safeOut.reasoning = "Reasoning not provided"

\* C20, amended: for a payload that is no dict the result is the error
\* analysis for "Invalid response format": confidence 0.0, verdict
\* UNVERIFIABLE and no supporting evidence, but the perspective "Error in
\* <agent> analysis", error texts as analysis and reasoning, and one key
\* finding, "Agent <agent> encountered an error".
C20_NonMappingGivesErrorAnalysis ==
    (safeOut # NoReport /\ "dict" \notin DOMAIN safePayload) =>
        safeOut = [agent_name |-> safeAgent,
                   perspective |-> "Error in " \o safeAgent \o " analysis",
                   analysis |-> "Analysis failed due to error: Invalid response format",
                   confidence_score |-> 0,
                   key_findings |-> <<"Agent " \o safeAgent \o " encountered an error">>,
                   supporting_evidence |-> <<>>,
                   verdict |-> "UNVERIFIABLE",
                   reasoning |-> "Error occurred during analysis: Invalid response format"]

\* the payload was None and the result has one key finding
C20_Witness ==
    /\ safeOut # NoReport
    /\ safePayload = PyNone
    /\ ~IsRaise(safeOut)
    /\ Len(safeOut.key_findings) = 1
    /\ safeOut.confidence_score = 0

\* the try block raised on the payload
CoercionFailed == IsRaise(SafeAnalysisAttempt(safePayload, safeAgent))
\* str(e) of the exception it raised
CoercionError == SafeAnalysisAttempt(safePayload, safeAgent).raised

\* C21 as stated: when the coercion of a dict payload fails, the result has
\* verdict UNVERIFIABLE, confidence 0.0 and exactly one key finding, whose
\* text holds both the agent's name and the error that occurred.
C21_FailureFindingNamesAgentAndError ==
    (safeOut # NoReport /\ "dict" \in DOMAIN safePayload /\ CoercionFailed) =>
        /\ safeOut.verdict = "UNVERIFIABLE"
        /\ safeOut.confidence_score = 0
        /\ Len(safeOut.key_findings) = 1
        /\ Contains(Spelling(safeAgent), Spelling(safeOut.key_findings[1]))
        /\ Contains(Spelling(CoercionError), Spelling(safeOut.key_findings[1]))

\* C21, amended: when the coercion of a dict payload fails, the result has
\* verdict UNVERIFIABLE, confidence 0.0 and exactly one key finding, "Agent
\* <agent> encountered an error", which names the agent but not the error;
\* the error is named by the analysis and the reasoning.
C21_FailureGivesErrorAnalysis ==
    (safeOut # NoReport /\ "dict" \in DOMAIN safePayload /\ CoercionFailed) =>
        /\ safeOut.verdict = "UNVERIFIABLE"
        /\ safeOut.confidence_score = 0
        /\ safeOut.key_findings = <<"Agent " \o safeAgent \o " encountered an error">>
        /\ Contains(Spelling(safeAgent), Spelling(safeOut.key_findings[1]))
        /\ ~Contains(Spelling(CoercionError), Spelling(safeOut.key_findings[1]))
        /\ safeOut.analysis = "Analysis failed due to error: " \o CoercionError
        /\ safeOut.reasoning = "Error occurred during analysis: " \o CoercionError

\* the confidence_score of the payload was None: float() raised a TypeError
C21_Witness ==
    /\ safeOut # NoReport
    /\ "dict" \in DOMAIN safePayload
    /\ "confidence_score" \in DOMAIN safePayload.dict
    /\ safePayload.dict.confidence_score = PyNone
    /\ CoercionFailed
    /\ Len(safeOut.key_findings) = 1

\* the lowered analysis of entry n of d holds the word
AnalysisHolds(d, n, word) == InLower(word, Get(d[n], "analysis", ""))

\* the action items the claims say d triggers
TriggeredItems(d) ==
    {"Verify claims as suggested by " \o n : n \in {m \in Usable(d) : AnalysisHolds(d, m, "verify")}}
    \cup {item \in {"Obtain missing context for complete evaluation"} :
              \E n \in Usable(d) : AnalysisHolds(d, n, "context") /\ AnalysisHolds(d, n, "missing")}
    \cup {item \in {"Access primary sources for verification"} :
              \E n \in Usable(d) : AnalysisHolds(d, n, "source") /\ AnalysisHolds(d, n, "primary")}

\* C22: every returned action item is triggered by a non-error entry: the
\* verify item of an agent by that agent's analysis holding "verify", the
\* context item by an analysis holding "context" and "missing", the primary
\* source item by one holding "source" and "primary"; no item names an agent
\* whose entry is an error record; and when at most three different items
\* are triggered, all of them are returned.
C22_ActionItemsJustified ==
    fnOut # NoReport =>
        /\ \A k \in 1..Len(fnOut.action_items) :
               fnOut.action_items[k] \in TriggeredItems(fnP)
        /\ \A n \in DOMAIN fnP \ Usable(fnP) :
               \A k \in 1..Len(fnOut.action_items) :
                   fnOut.action_items[k] # "Verify claims as suggested by " \o n
        /\ Cardinality(TriggeredItems(fnP)) <= 3 =>
               Range(fnOut.action_items) = TriggeredItems(fnP)

\* one agent failed, the other three trigger three different items, which
\* are all returned
C22_Witness ==
    /\ fnOut # NoReport
    /\ Cardinality(DOMAIN fnP) = 4
    /\ Cardinality(Usable(fnP)) = 3
    /\ Cardinality(TriggeredItems(fnP)) = 3
    /\ Range(fnOut.action_items) = TriggeredItems(fnP)

\* entry n of d is an error record
IsErrorEntry(d, n) == n \in DOMAIN d /\ "error" \in DOMAIN d[n]

\* C23: the disagreement list holds the fact-checker message if and only if
\* fact_checker and conspirator both have an entry, the first holding
\* "accurate" and the second "manipulat"; it holds the data message if and
\* only if nerd and simple_joe both have an entry, the first holding
\* "statistical" and the second "doesn't make sense"; it holds nothing else
\* and nothing twice, and an error record triggers no message.
C23_DisagreementsIffRules ==
    fnOut # NoReport =>
        LET listed == Range(fnOut.key_disagreements)
            skeptic == "Fact-checker finds claim accurate, but Conspirator sees manipulation"
            data == "Data supports claim but common sense interpretation differs"
        IN  /\ skeptic \in listed <=>
                   /\ {"fact_checker", "conspirator"} \subseteq DOMAIN fnP
                   /\ AnalysisHolds(fnP, "fact_checker", "accurate")
                   /\ AnalysisHolds(fnP, "conspirator", "manipulat")
            /\ data \in listed <=>
                   /\ {"nerd", "simple_joe"} \subseteq DOMAIN fnP
                   /\ AnalysisHolds(fnP, "nerd", "statistical")
                   /\ AnalysisHolds(fnP, "simple_joe", "doesn't make sense")
            /\ listed \subseteq {skeptic, data}
            /\ Len(fnOut.key_disagreements) = Cardinality(listed)
            /\ Len(fnOut.key_disagreements) <= 2
            /\ (IsErrorEntry(fnP, "fact_checker") \/ IsErrorEntry(fnP, "conspirator"))
                   => skeptic \notin listed
            /\ (IsErrorEntry(fnP, "nerd") \/ IsErrorEntry(fnP, "simple_joe"))
                   => data \notin listed

\* both disagreements are found
C23_Witness ==
    /\ fnOut # NoReport
    /\ DOMAIN fnP = Agents
    /\ Len(fnOut.key_disagreements) = 2
    /\ fnOut.key_disagreements[1] # fnOut.key_disagreements[2]

\* C24: when agents_to_use is omitted the evaluators invoked so far are the
\* first ones of fact_checker, conspirator, simple_joe, nerd, in this order,
\* each once; an evaluator is invoked only when every earlier one has returned
\* or raised; and when the loop is over all four have been invoked.
C24_DefaultRunsAllInRegistrationOrder ==
    (pc # "ready" /\ requested.omitted) =>
        LET order == <<"fact_checker", "conspirator", "simple_joe", "nerd">>
        IN  /\ Len(calls) <= 4
            /\ calls = SubSeq(order, 1, Len(calls))
            /\ Len(resolved) = IF pc = "evaluating" THEN Len(calls) - 1 ELSE Len(calls)
            /\ \A k \in 1..Len(resolved) : resolved[k].agent = calls[k]
            /\ pc \in {"synthesizing", "returned", "raised"} => calls = order

\* the default call returned after the second and the fourth evaluator raised
C24_Witness ==
    /\ pc = "returned"
    /\ requested.omitted
    /\ Len(calls) = 4
    /\ Len(resolved) = 4
    /\ ~resolved[1].raised /\ resolved[2].raised
    /\ ~resolved[3].raised /\ resolved[4].raised

\* C25: once the synthesizer has been handed the dict, the dict is not
\* changed any more: the local dict stays what was handed over, and the
\* 'perspectives' of a returned report is that dict, entry by entry.
C25_PerspectivesFrozenAfterLoop ==
    synthesisInput # NotSynthesized =>
        /\ DOMAIN perspectives = DOMAIN synthesisInput
        /\ \A n \in DOMAIN synthesisInput : perspectives[n] = synthesisInput[n]
        /\ report # NoReport =>
               /\ DOMAIN report.perspectives = DOMAIN synthesisInput
               /\ \A n \in DOMAIN synthesisInput :
                      report.perspectives[n] = synthesisInput[n]

\* a report whose synthesis found a disagreement and action items, on a dict
\* of three answers and an error record
C25_Witness ==
    /\ pc = "returned"
    /\ DOMAIN synthesisInput = Agents
    /\ Cardinality({n \in Agents : "error" \in DOMAIN synthesisInput[n]}) = 1
    /\ Len(report.synthesis.key_disagreements) >= 1
    /\ Len(report.synthesis.action_items) = 3
    /\ report.synthesis.verdict = "SELECTIVE_TRUTH"

\* every evaluator ended the same way each time it was run
FixedOutcomes ==
    \A j, k \in 1..Len(resolved) :
        resolved[j].agent = resolved[k].agent => resolved[j] = resolved[k]

\* the dict that the outcomes determine, whatever the order they came in
OutcomeDict ==
    LET outcomes == Range(resolved)
        of(n) == CHOOSE r \in outcomes : r.agent = n
    IN  [n \in {r.agent : r \in outcomes} |->
            IF of(n).raised
            THEN [agent |-> n, error |-> of(n).value, analysis |-> "Error during analysis"]
            ELSE of(n).value]

\* the report is what the outcomes determine
ReportFromOutcomes ==
    LET determined == OutcomeDict
    IN  /\ report.perspectives = determined
        /\ report.consensus_level = _calculate_consensus(determined)
        /\ report.synthesis.confidence = _calculate_synthesis_confidence(determined)
        /\ report.synthesis.key_disagreements = _extract_disagreements(determined)

\* C26: when an evaluator returns or raises, only the entry under its own
\* name is written and every other entry stays as it was; and for evaluators
\* that each end in one way, the returned dict, consensus level, synthesis
\* confidence and disagreement list are determined by how each evaluator
\* ended, so they are the same for every order in which they were run.
C26_OrderIndependent ==
    /\ [][pc = "evaluating" =>
              \A n \in DOMAIN perspectives \ {agents_to_use[idx]} :
                  /\ n \in DOMAIN perspectives'
                  /\ perspectives'[n] = perspectives[n]]_vars
    /\ []((pc = "returned" /\ FixedOutcomes) => ReportFromOutcomes)

\* nerd was run before fact_checker, against the registration order; the
\* first raised and the second returned
C26_Witness ==
    /\ pc = "returned"
    /\ agents_to_use = <<"nerd", "fact_checker">>
    /\ resolved[1].raised
    /\ ~resolved[2].raised
    /\ DOMAIN report.perspectives = {"nerd", "fact_checker"}

\* C27: if every evaluate() call and the synthesis gateway call eventually
\* return or raise, a call of evaluate_statement eventually returns a report
\* or fails with the synthesis error; and it has completed only when every
\* selected registered evaluator has been invoked and has returned or raised.
C27_CallCompletes ==
    /\ (pc = "gather") ~> (pc \in {"returned", "raised"})
    /\ [](pc \in {"returned", "raised"} =>
              /\ calls = RegisteredRequested
              /\ Len(resolved) = Len(calls)
              /\ pc = "returned" => report # NoReport /\ raised = NoError
              /\ pc = "raised" => report = NoReport /\ raised = gatewayError
                                                    /\ gatewayError # NoError)

\* a call for a name that is not registered and for nerd has returned after
\* nerd raised
C27_Witness ==
    /\ pc = "returned"
    /\ agents_to_use = <<"historian", "nerd">>
    /\ Len(resolved) = 1
    /\ resolved[1].raised

\* the requested names no evaluator is registered under
UnregisteredRequested == {n \in Range(agents_to_use) : n \notin Agents}

\* C28: a requested name that is not registered is passed over: no
\* evaluator is invoked for it, nothing is recorded as returned or raised for
\* it, it gets no entry, not even an error record, and the call raises nothing
\* on its account; the keys of a returned report are the requested names that
\* are registered.
C28_UnregisteredNameSkipped ==
    /\ \A n \in UnregisteredRequested :
           /\ n \notin Range(calls)
           /\ \A k \in 1..Len(resolved) : resolved[k].agent # n
           /\ n \notin DOMAIN perspectives
           /\ report # NoReport => n \notin DOMAIN report.perspectives
    /\ raised # NoError => /\ gatewayError = raised
                           /\ idx > Len(agents_to_use)
    /\ pc = "returned" =>
           DOMAIN report.perspectives = Range(agents_to_use) \ UnregisteredRequested

\* fact_checker and a name that is not registered were requested; the report
\* has the fact_checker entry only
C28_Witness ==
    /\ pc = "returned"
    /\ agents_to_use = <<"fact_checker", "historian">>
    /\ DOMAIN report.perspectives = {"fact_checker"}
    /\ calls = <<"fact_checker">>

\* the population variance of the sentiments of the non-error entries of d is
\* VarianceNum(d) / VarianceDen(d)
VarianceNum(d) ==
    LET usable == Usable(d)
        s == [m \in usable |-> Sentiment(d[m])]
        sq == [m \in usable |-> s[m] * s[m]]
    IN  Cardinality(usable) * SumOver(sq, usable) - SumOver(s, usable) * SumOver(s, usable)

VarianceDen(d) == Cardinality(Usable(d)) * Cardinality(Usable(d))

C30_RateLimitSpacing ==
    /\ [][(ratePc = "stamp" /\ ratePc' = "idle") =>
              /\ returnedAt[rateLimiter] # Never =>
                     now' - returnedAt[rateLimiter] >= delay[rateLimiter]
              /\ delay' = delay
              /\ lastTime'[rateLimiter] = now'
              /\ returnedAt'[rateLimiter] = now'
              /\ \A l \in Limiters \ {rateLimiter} : lastTime'[l] = lastTime[l]]_vars
    /\ [][\A l \in Limiters : lastTime'[l] >= lastTime[l]]_vars
    /\ [](\A l \in Limiters :
              lastTime[l] = IF returnedAt[l] = Never THEN 0 ELSE returnedAt[l])

\* the scraper's limiter, called again after the text search limiter had
\* returned too, slept and returned at the reading its sleep ended at, 2
\* seconds after its return before
C30_Witness ==
    /\ ratePc = "idle"
    /\ rateLimiter = "search_scraper"
    /\ delay["search_scraper"] = 2
    /\ wakeAt > Epoch
    /\ returnedAt["search_scraper"] = wakeAt
    /\ returnedAt["search_utils"] # Never

====
